---- MODULE Spec2Model ----
(***************************************************************************)
(* QuantumMesh: the state-vector simulator (src/qsim.rs), its gate kernels *)
(* (src/gpu_ops.rs), the circuit optimizer, the memory pool and the kernel *)
(* launcher.                                                               *)
(*                                                                         *)
(* Amplitudes are f64 pairs in the source.  Every coefficient the model's  *)
(* gates use (1/sqrt 2, cos and sin of multiples of pi/4) lies in the ring *)
(* Z[sqrt 2][1/2], so a real number is modelled exactly as <<a, b, k>>,    *)
(* standing for (a + b*sqrt 2) / 2^k, in lowest terms.  Floating-point     *)
(* rounding is not modelled: equalities below are those of exact           *)
(* arithmetic.                                                             *)
(***************************************************************************)
EXTENDS Integers, Sequences, FiniteSets, TLC

\* ------------------------------------------------------------- bounds
\* Largest register the simulator is created with.
MaxQubits == 3
\* Longest circuit read from a file (gates applied to one simulator).
MaxGates == 2

\* Angles are integers in units of pi/4.
PhaseAngles == {1, 6}
\* Rotation angles are halved by the kernels, so they are even.
RotAngles == {2, 4}

\* ------------------------------------------------- exact real numbers
RECURSIVE Norm(_, _, _)
Norm(a, b, k) ==
    IF k > 0 /\ a % 2 = 0 /\ b % 2 = 0
    THEN Norm(a \div 2, b \div 2, k - 1)
    ELSE <<a, b, k>>

Zero == <<0, 0, 0>>
One == <<1, 0, 0>>

Neg(x) == <<0 - x[1], 0 - x[2], x[3]>>

Add(x, y) ==
    IF x[3] = y[3] THEN Norm(x[1] + y[1], x[2] + y[2], x[3])
    ELSE IF x[3] > y[3]
    THEN LET sy == 2 ^ (x[3] - y[3]) IN
         Norm(x[1] + sy * y[1], x[2] + sy * y[2], x[3])
    ELSE LET sx == 2 ^ (y[3] - x[3]) IN
         Norm(sx * x[1] + y[1], sx * x[2] + y[2], y[3])

Sub(x, y) == Add(x, Neg(y))

Mul(x, y) ==
    IF (x[1] = 0 /\ x[2] = 0) \/ (y[1] = 0 /\ y[2] = 0) THEN Zero
    ELSE Norm(x[1] * y[1] + 2 * x[2] * y[2], x[1] * y[2] + x[2] * y[1], x[3] + y[3])

\* 1.0 / 2.0_f64.sqrt()
InvSqrt2 == <<0, 1, 1>>

\* cos and sin of m * pi/4
Cos(m) ==
    LET r == m % 8 IN
    CASE r = 0 -> One
      [] r = 1 -> InvSqrt2
      [] r = 2 -> Zero
      [] r = 3 -> Neg(InvSqrt2)
      [] r = 4 -> Neg(One)
      [] r = 5 -> Neg(InvSqrt2)
      [] r = 6 -> Zero
      [] r = 7 -> InvSqrt2

Sin(m) == Cos(m - 2)

\* ------------------------------------------------------------ Complex
Complex(re, im) == [re |-> re, im |-> im]

magnitude_squared(c) == Add(Mul(c.re, c.re), Mul(c.im, c.im))

\* ------------------------------------------------------ GpuStateVector
\* A state vector is [size, data, panic]: panic records that an index past
\* the end of data was used, which aborts the call (Rust's bounds check).
NewStateVector(num_qubits) ==
    [size |-> 2 ^ num_qubits,
     data |-> [i \in 0 .. (2 ^ num_qubits - 1) |->
                  IF i = 0 THEN Complex(One, Zero) ELSE Complex(Zero, Zero)],
     panic |-> FALSE]

\* i & mask for a mask with one bit set
BitAnd(i, mask) == ((i \div mask) % 2) * mask

Panicked(sv) == [sv EXCEPT !.panic = TRUE]

\* HadamardPair with the 1/sqrt 2 factor forgotten.
HadamardPairUnscaled(a, b) ==
    <<Complex(Add(a.re, b.re), Add(a.im, b.im)),
      Complex(Sub(a.re, b.re), Sub(a.im, b.im))>>

\* The two amplitudes of the pair (i, j) after a Hadamard.
HadamardPair(a, b) ==
    <<Complex(Mul(InvSqrt2, Add(a.re, b.re)), Mul(InvSqrt2, Add(a.im, b.im))),
      Complex(Mul(InvSqrt2, Sub(a.re, b.re)), Mul(InvSqrt2, Sub(a.im, b.im)))>>

RECURSIVE HadamardLoop(_, _, _)
HadamardLoop(sv, i, stride) ==
    IF i >= sv.size THEN sv
    ELSE IF BitAnd(i, stride) = 0
    THEN LET j == i + stride IN
         IF j >= sv.size THEN Panicked(sv)
         ELSE LET p == HadamardPair(sv.data[i], sv.data[j]) IN
              HadamardLoop([sv EXCEPT !.data[i] = p[1], !.data[j] = p[2]],
                           i + 1, stride)
    ELSE HadamardLoop(sv, i + 1, stride)

apply_hadamard_gpu(sv, qubit) ==
    IF sv.panic THEN sv ELSE HadamardLoop(sv, 0, 2 ^ qubit)

\* CnotSelects without the test of the target bit.
CnotSelectsControlOnly(i, control_mask, target_mask) ==
    BitAnd(i, control_mask) # 0

\* Whether the CNOT loop swaps the pair starting at index i.
CnotSelects(i, control_mask, target_mask) ==
    BitAnd(i, control_mask) # 0 /\ BitAnd(i, target_mask) = 0

RECURSIVE CnotLoop(_, _, _, _)
CnotLoop(sv, i, control_mask, target_mask) ==
    IF i >= sv.size THEN sv
    ELSE IF CnotSelects(i, control_mask, target_mask)
    THEN LET j == i + target_mask IN
         IF j >= sv.size THEN Panicked(sv)
         ELSE CnotLoop([sv EXCEPT !.data[i] = sv.data[j], !.data[j] = sv.data[i]],
                       i + 1, control_mask, target_mask)
    ELSE CnotLoop(sv, i + 1, control_mask, target_mask)

apply_cnot_gpu(sv, control, target) ==
    IF sv.panic THEN sv ELSE CnotLoop(sv, 0, 2 ^ control, 2 ^ target)

\* The amplitude at an index with the qubit's bit set, after a phase gate.
PhaseAmp(c, cos_phase, sin_phase) ==
    Complex(Sub(Mul(c.re, cos_phase), Mul(c.im, sin_phase)),
            Add(Mul(c.re, sin_phase), Mul(c.im, cos_phase)))

RECURSIVE PhaseLoop(_, _, _, _, _)
PhaseLoop(sv, i, mask, cos_phase, sin_phase) ==
    IF i >= sv.size THEN sv
    ELSE IF BitAnd(i, mask) # 0
    THEN PhaseLoop([sv EXCEPT !.data[i] = PhaseAmp(sv.data[i], cos_phase, sin_phase)],
                   i + 1, mask, cos_phase, sin_phase)
    ELSE PhaseLoop(sv, i + 1, mask, cos_phase, sin_phase)

apply_phase_gpu(sv, qubit, phase) ==
    IF sv.panic THEN sv ELSE PhaseLoop(sv, 0, 2 ^ qubit, Cos(phase), Sin(phase))

RECURSIVE XLoop(_, _, _)
XLoop(sv, i, mask) ==
    IF i >= sv.size THEN sv
    ELSE IF BitAnd(i, mask) = 0
    THEN LET j == i + mask IN
         IF j >= sv.size THEN Panicked(sv)
         ELSE XLoop([sv EXCEPT !.data[i] = sv.data[j], !.data[j] = sv.data[i]],
                    i + 1, mask)
    ELSE XLoop(sv, i + 1, mask)

apply_x_gpu(sv, qubit) ==
    IF sv.panic THEN sv ELSE XLoop(sv, 0, 2 ^ qubit)

YPair(temp_i, temp_j) ==
    <<Complex(temp_j.im, Neg(temp_j.re)), Complex(Neg(temp_i.im), temp_i.re)>>

RECURSIVE YLoop(_, _, _)
YLoop(sv, i, mask) ==
    IF i >= sv.size THEN sv
    ELSE IF BitAnd(i, mask) = 0
    THEN LET j == i + mask IN
         IF j >= sv.size THEN Panicked(sv)
         ELSE LET p == YPair(sv.data[i], sv.data[j]) IN
              YLoop([sv EXCEPT !.data[i] = p[1], !.data[j] = p[2]], i + 1, mask)
    ELSE YLoop(sv, i + 1, mask)

apply_y_gpu(sv, qubit) ==
    IF sv.panic THEN sv ELSE YLoop(sv, 0, 2 ^ qubit)

ZAmp(c) == Complex(Neg(c.re), Neg(c.im))

RECURSIVE ZLoop(_, _, _)
ZLoop(sv, i, mask) ==
    IF i >= sv.size THEN sv
    ELSE IF BitAnd(i, mask) # 0
    THEN ZLoop([sv EXCEPT !.data[i] = ZAmp(sv.data[i])], i + 1, mask)
    ELSE ZLoop(sv, i + 1, mask)

apply_z_gpu(sv, qubit) ==
    IF sv.panic THEN sv ELSE ZLoop(sv, 0, 2 ^ qubit)

RxPair(a, b, cos_half, sin_half) ==
    <<Complex(Add(Mul(cos_half, a.re), Mul(sin_half, b.im)),
              Sub(Mul(cos_half, a.im), Mul(sin_half, b.re))),
      Complex(Add(Mul(cos_half, b.re), Mul(sin_half, a.im)),
              Sub(Mul(cos_half, b.im), Mul(sin_half, a.re)))>>

RECURSIVE RxLoop(_, _, _, _, _)
RxLoop(sv, i, mask, cos_half, sin_half) ==
    IF i >= sv.size THEN sv
    ELSE IF BitAnd(i, mask) = 0
    THEN LET j == i + mask IN
         IF j >= sv.size THEN Panicked(sv)
         ELSE LET p == RxPair(sv.data[i], sv.data[j], cos_half, sin_half) IN
              RxLoop([sv EXCEPT !.data[i] = p[1], !.data[j] = p[2]],
                     i + 1, mask, cos_half, sin_half)
    ELSE RxLoop(sv, i + 1, mask, cos_half, sin_half)

\* angle / 2.0 is angle \div 2: rotation angles are even multiples of pi/4.
apply_rx_gpu(sv, qubit, angle) ==
    IF sv.panic THEN sv
    ELSE RxLoop(sv, 0, 2 ^ qubit, Cos(angle \div 2), Sin(angle \div 2))

\* RyPair with the sign of the sine term of the first amplitude flipped.
RyPairSignSlip(a, b, cos_half, sin_half) ==
    <<Complex(Add(Mul(cos_half, a.re), Mul(sin_half, b.re)),
              Add(Mul(cos_half, a.im), Mul(sin_half, b.im))),
      Complex(Add(Mul(sin_half, a.re), Mul(cos_half, b.re)),
              Add(Mul(sin_half, a.im), Mul(cos_half, b.im)))>>

RyPair(a, b, cos_half, sin_half) ==
    <<Complex(Sub(Mul(cos_half, a.re), Mul(sin_half, b.re)),
              Sub(Mul(cos_half, a.im), Mul(sin_half, b.im))),
      Complex(Add(Mul(sin_half, a.re), Mul(cos_half, b.re)),
              Add(Mul(sin_half, a.im), Mul(cos_half, b.im)))>>

RECURSIVE RyLoop(_, _, _, _, _)
RyLoop(sv, i, mask, cos_half, sin_half) ==
    IF i >= sv.size THEN sv
    ELSE IF BitAnd(i, mask) = 0
    THEN LET j == i + mask IN
         IF j >= sv.size THEN Panicked(sv)
         ELSE LET p == RyPair(sv.data[i], sv.data[j], cos_half, sin_half) IN
              RyLoop([sv EXCEPT !.data[i] = p[1], !.data[j] = p[2]],
                     i + 1, mask, cos_half, sin_half)
    ELSE RyLoop(sv, i + 1, mask, cos_half, sin_half)

apply_ry_gpu(sv, qubit, angle) ==
    IF sv.panic THEN sv
    ELSE RyLoop(sv, 0, 2 ^ qubit, Cos(angle \div 2), Sin(angle \div 2))

apply_rz_gpu(sv, qubit, angle) == apply_phase_gpu(sv, qubit, angle)

measure_all_gpu(sv) == [i \in 0 .. (sv.size - 1) |-> magnitude_squared(sv.data[i])]

\* ---------------------------------------------------- QuantumSimulator
apply_cnot(sv, control, target) == apply_cnot_gpu(sv, control, target)

apply_swap(sv, qubit1, qubit2) ==
    apply_cnot(apply_cnot(apply_cnot(sv, qubit1, qubit2), qubit2, qubit1),
               qubit1, qubit2)

\* -PI / 4.0 and PI / 4.0 in units of pi/4
MinusQuarterPi == -1
QuarterPi == 1

apply_toffoli(sv, control1, control2, target) ==
    LET s1 == apply_hadamard_gpu(sv, target)
        s2 == apply_cnot(s1, control2, target)
        s3 == apply_rz_gpu(s2, target, MinusQuarterPi)
        s4 == apply_cnot(s3, control1, target)
        s5 == apply_rz_gpu(s4, target, QuarterPi)
        s6 == apply_cnot(s5, control2, target)
        s7 == apply_rz_gpu(s6, target, MinusQuarterPi)
        s8 == apply_cnot(s7, control1, target)
        s9 == apply_rz_gpu(s8, target, QuarterPi)
    IN apply_hadamard_gpu(s9, target)

\* apply_gate: the state vector after the call (panic set when it aborted).
apply_gate(sv, gate) ==
    CASE gate.type = "Hadamard" -> apply_hadamard_gpu(sv, gate.qubit)
      [] gate.type = "PauliX" -> apply_x_gpu(sv, gate.qubit)
      [] gate.type = "PauliY" -> apply_y_gpu(sv, gate.qubit)
      [] gate.type = "PauliZ" -> apply_z_gpu(sv, gate.qubit)
      [] gate.type = "Phase" -> apply_phase_gpu(sv, gate.qubit, gate.angle)
      [] gate.type = "CNOT" -> apply_cnot(sv, gate.control, gate.target)
      [] gate.type = "SWAP" -> apply_swap(sv, gate.qubit1, gate.qubit2)
      [] gate.type = "Toffoli" ->
            apply_toffoli(sv, gate.control1, gate.control2, gate.target)
      [] gate.type = "RotationX" -> apply_rx_gpu(sv, gate.qubit, gate.angle)
      [] gate.type = "RotationY" -> apply_ry_gpu(sv, gate.qubit, gate.angle)
      [] gate.type = "RotationZ" -> apply_rz_gpu(sv, gate.qubit, gate.angle)
      [] gate.type = "Measurement" -> sv

measure_all(sv) == measure_all_gpu(sv)

\* ------------------------------------------------------ circuit builders
Hadamard(q) == [type |-> "Hadamard", qubit |-> q]
PauliX(q) == [type |-> "PauliX", qubit |-> q]
PauliY(q) == [type |-> "PauliY", qubit |-> q]
PauliZ(q) == [type |-> "PauliZ", qubit |-> q]
Phase(q, angle) == [type |-> "Phase", qubit |-> q, angle |-> angle]
CNOT(c, t) == [type |-> "CNOT", control |-> c, target |-> t]
SWAP(q1, q2) == [type |-> "SWAP", qubit1 |-> q1, qubit2 |-> q2]
Toffoli(c1, c2, t) ==
    [type |-> "Toffoli", control1 |-> c1, control2 |-> c2, target |-> t]
RotationX(q, angle) == [type |-> "RotationX", qubit |-> q, angle |-> angle]
RotationY(q, angle) == [type |-> "RotationY", qubit |-> q, angle |-> angle]
RotationZ(q, angle) == [type |-> "RotationZ", qubit |-> q, angle |-> angle]
Measurement(q) == [type |-> "Measurement", qubit |-> q]

create_bell_state ==
    [num_qubits |-> 2, gates |-> <<Hadamard(0), CNOT(0, 1)>>]

\* GhzLoop with control and target exchanged.
RECURSIVE GhzLoopSwapped(_, _, _)
GhzLoopSwapped(gates, i, n) ==
    IF i >= n THEN gates ELSE GhzLoopSwapped(Append(gates, CNOT(i, 0)), i + 1, n)

\* for i in 1..num_qubits { gates.push(CNOT { control: 0, target: i }) }
RECURSIVE GhzLoop(_, _, _)
GhzLoop(gates, i, n) ==
    IF i >= n THEN gates ELSE GhzLoop(Append(gates, CNOT(0, i)), i + 1, n)

create_ghz_state(n) ==
    [num_qubits |-> n, gates |-> GhzLoop(<<Hadamard(0)>>, 1, n)]

\* The qubit-index fields of a gate descriptor.
GateQubits(g) ==
    CASE g.type = "CNOT" -> <<g.control, g.target>>
      [] g.type = "SWAP" -> <<g.qubit1, g.qubit2>>
      [] g.type = "Toffoli" -> <<g.control1, g.control2, g.target>>
      [] OTHER -> <<g.qubit>>

InRange(g, n) == \A k \in DOMAIN GateQubits(g) : GateQubits(g)[k] < n

Distinct(g) ==
    \A j, k \in DOMAIN GateQubits(g) : j # k => GateQubits(g)[j] # GateQubits(g)[k]

\* ---------------------------------------------------------------- state
VARIABLES
    num_qubits,   \* QuantumSimulator.num_qubits
    state,        \* QuantumSimulator.state
    source,       \* where the circuit being simulated comes from
    applied,      \* gates of the circuit applied so far
    call,         \* the last apply_gate call's argument: "wellformed",
                  \* "out_of_range" or "not_distinct"
    changed,      \* whether that call changed an amplitude
    outcome,      \* how that call ended: "ok" (returned ()) or "panic"
    wellformed,   \* every gate applied so far was in range with distinct qubits
    results,      \* what measure_all returned after the last gate
    circuit,      \* optimize: its argument
    opt_i,        \* optimize: the loop's index i into circuit.gates (from 0)
    skip_next,    \* optimize: the loop's flag
    optimized_gates,  \* optimize: the gates kept so far
    optimized,    \* optimize: its return value, NoCircuit until it returns
    overflow_checks,  \* the build panics on integer overflow (debug) or wraps
    total_memory, \* GpuMemoryPool.total_memory
    used_memory,  \* GpuMemoryPool.used_memory
    pool_call,    \* the last pool call: its name, argument, used_memory when
                  \* it started, and how it ended
    total_work,   \* the argument of GpuKernelLauncher::new
    block_size,   \* GpuKernelLauncher.block_size
    grid_size,    \* GpuKernelLauncher.grid_size
    grid_idx,     \* launch: the outer loop's index
    block_idx,    \* launch: the inner loop's index
    kernel_calls, \* launch: the (grid_idx, block_idx) pairs passed to kernel
    generator,    \* which circuit generator is running
    gen_n,        \* the generator's num_qubits argument
    gen_gates,    \* the generator's gates vector
    gen_j,        \* create_ghz_state: i; create_qft_circuit: j
    gen_k,        \* create_qft_circuit: k
    gen_pc,       \* where the generator stands: "start", "loop", "inner", "done"
    generated,    \* the circuit the generator returned, NoCircuit before
    par_gate,     \* the gate whose kernel is being run pair by pair
    par_input,    \* the state vector the kernel was called on
    par_sv,       \* the state vector that kernel works on
    par_pc,       \* for each loop index i, how far its iteration has got
    par_a,        \* for each loop index i, the amplitude its iteration read at i
    par_b,        \* for each loop index i, the amplitude its iteration read at j
    par_writes    \* for each index, how often this kernel run has written it

simVars ==
    <<num_qubits, state, source, applied, call, changed, outcome, wellformed, results>>

optVars == <<circuit, opt_i, skip_next, optimized_gates, optimized>>

poolVars == <<overflow_checks, total_memory, used_memory, pool_call>>

launchVars == <<total_work, block_size, grid_size, grid_idx, block_idx, kernel_calls>>

genVars == <<generator, gen_n, gen_gates, gen_j, gen_k, gen_pc, generated>>

parVars == <<par_gate, par_input, par_sv, par_pc, par_a, par_b, par_writes>>

vars == <<simVars, optVars, poolVars, launchVars, genVars, parVars>>

\* How a gate descriptor stands to a register of n qubits.
CallKind(g, n) ==
    IF ~InRange(g, n) THEN "out_of_range"
    ELSE IF ~Distinct(g) THEN "not_distinct"
    ELSE "wellformed"

NoResults == <<>>
NoCircuit == [num_qubits |-> 0, gates |-> <<>>, none |-> TRUE]

\* No optimize call is in progress.
OptIdle ==
    /\ circuit = NoCircuit
    /\ opt_i = 0
    /\ skip_next = FALSE
    /\ optimized_gates = <<>>
    /\ optimized = NoCircuit

\* How a pool call ends: Ok(()), Err(message) or a panic.
Ok == [ok |-> TRUE]
Err(requested, available) ==
    [ok |-> FALSE, requested |-> requested, available |-> available]
Panic == [panic |-> TRUE]

NoCall == [op |-> "none", size |-> 0, before |-> 0, result |-> Ok]

\* No pool exists.
PoolIdle ==
    /\ overflow_checks = FALSE
    /\ total_memory = 0
    /\ used_memory = 0
    /\ pool_call = NoCall

\* No launcher exists.
LaunchIdle ==
    /\ total_work = 0
    /\ block_size = 0
    /\ grid_size = 0
    /\ grid_idx = 0
    /\ block_idx = 0
    /\ kernel_calls = <<>>

\* No generator is running.
GenIdle ==
    /\ generator = "none"
    /\ gen_n = 0
    /\ gen_gates = <<>>
    /\ gen_j = 0
    /\ gen_k = 0
    /\ gen_pc = "done"
    /\ generated = NoCircuit

NoGate == [type |-> "none"]

\* No kernel is being run pair by pair.
ParIdle ==
    /\ par_gate = NoGate
    /\ par_input = NewStateVector(0)
    /\ par_sv = NewStateVector(0)
    /\ par_pc = <<>>
    /\ par_a = <<>>
    /\ par_b = <<>>
    /\ par_writes = <<>>

\* No simulation is in progress.
SimIdle ==
    /\ num_qubits = 0
    /\ state = NewStateVector(0)
    /\ source = "none"
    /\ applied = 0
    /\ call = "none"
    /\ changed = FALSE
    /\ outcome = "none"
    /\ wellformed = TRUE
    /\ results = NoResults

\* QuantumSimulator::new, as simulate_circuit calls it on a loaded circuit.
InitSim ==
    /\ source \in {"file", "bell", "ghz"}
    /\ num_qubits \in 0 .. MaxQubits
    /\ source = "bell" => num_qubits = create_bell_state.num_qubits
    /\ state = NewStateVector(num_qubits)
    /\ applied = 0
    /\ call = "none"
    /\ changed = FALSE
    /\ outcome = "none"
    /\ wellformed = TRUE
    /\ results = NoResults

\* simulator.apply_gate(g), one iteration of simulate_circuit's loop.
Step(g) ==
    /\ ~state.panic
    /\ results = NoResults
    /\ state' = apply_gate(state, g)
    /\ outcome' = IF state'.panic THEN "panic" ELSE "ok"
    /\ changed' = (state'.data # state.data)
    /\ call' = CallKind(g, num_qubits)
    /\ applied' = applied + 1
    /\ wellformed' = (wellformed /\ CallKind(g, num_qubits) = "wellformed")
    /\ UNCHANGED <<num_qubits, source, results>>
    /\ UNCHANGED <<optVars, poolVars, launchVars, genVars, parVars>>

\* Qubit indices a circuit file may name: one past the register included.
Qubits == 0 .. num_qubits

FromFile == source = "file" /\ applied < MaxGates

ApplyHadamard == FromFile /\ \E q \in Qubits : Step(Hadamard(q))
ApplyPauliX == FromFile /\ \E q \in Qubits : Step(PauliX(q))
ApplyPauliY == FromFile /\ \E q \in Qubits : Step(PauliY(q))
ApplyPauliZ == FromFile /\ \E q \in Qubits : Step(PauliZ(q))
ApplyPhase ==
    FromFile /\ \E q \in Qubits, a \in PhaseAngles : Step(Phase(q, a))
ApplyCNOT == FromFile /\ \E c, t \in Qubits : Step(CNOT(c, t))
ApplySWAP == FromFile /\ \E q1, q2 \in Qubits : Step(SWAP(q1, q2))
ApplyToffoli ==
    FromFile /\ \E c1, c2, t \in Qubits : Step(Toffoli(c1, c2, t))
ApplyRotationX ==
    FromFile /\ \E q \in Qubits, a \in RotAngles : Step(RotationX(q, a))
ApplyRotationY ==
    FromFile /\ \E q \in Qubits, a \in RotAngles : Step(RotationY(q, a))
ApplyRotationZ ==
    FromFile /\ \E q \in Qubits, a \in PhaseAngles : Step(RotationZ(q, a))
ApplyMeasurement == FromFile /\ \E q \in Qubits : Step(Measurement(q))

\* The circuit a generator built for this register.
Generated ==
    IF source = "bell" THEN create_bell_state ELSE create_ghz_state(num_qubits)

ApplyGenerated ==
    /\ source \in {"bell", "ghz"}
    /\ applied < Len(Generated.gates)
    /\ Step(Generated.gates[applied + 1])

\* simulator.measure_all() once every gate is applied.
MeasureAll ==
    /\ ~state.panic
    /\ results = NoResults
    /\ source \in {"bell", "ghz"} => applied = Len(Generated.gates)
    /\ results' = measure_all(state)
    /\ UNCHANGED <<num_qubits, state, source, applied, call, changed, outcome, wellformed>>
    /\ UNCHANGED <<optVars, poolVars, launchVars, genVars, parVars>>

Init == InitSim /\ OptIdle /\ PoolIdle /\ LaunchIdle /\ GenIdle /\ ParIdle

Next ==
    \/ ApplyHadamard
    \/ ApplyPauliX
    \/ ApplyPauliY
    \/ ApplyPauliZ
    \/ ApplyPhase
    \/ ApplyCNOT
    \/ ApplySWAP
    \/ ApplyToffoli
    \/ ApplyRotationX
    \/ ApplyRotationY
    \/ ApplyRotationZ
    \/ ApplyMeasurement
    \/ ApplyGenerated
    \/ MeasureAll

Spec == Init /\ [][Next]_vars

\* ------------------------------------------------------------ optimize
\* Longest circuit handed to optimize.
MaxLen == 4

\* Register sizes and gates of the circuits handed to optimize.
OptQubitCounts == {2, 3}
OptGates ==
    {Hadamard(0), Hadamard(1), PauliX(0), PauliX(1), PauliZ(0), CNOT(0, 1)}

RECURSIVE SeqsUpTo(_, _)
SeqsUpTo(S, n) ==
    IF n = 0 THEN {<<>>}
    ELSE LET shorter == SeqsUpTo(S, n - 1) IN
         shorter \cup {Append(s, x) : s \in {t \in shorter : Len(t) = n - 1}, x \in S}

\* circuit.gates[k], indexed from 0 as in the source.
GateAt(c, k) == c.gates[k + 1]

\* CancelsHadamard that forgets to compare the qubits.
CancelsHadamardAnyQubit(c, k) ==
    /\ GateAt(c, k).type = "Hadamard"
    /\ k + 1 < Len(c.gates)
    /\ GateAt(c, k + 1).type = "Hadamard"

\* The gate at k and the next one are Hadamard gates on the same qubit.
CancelsHadamard(c, k) ==
    /\ GateAt(c, k).type = "Hadamard"
    /\ k + 1 < Len(c.gates)
    /\ GateAt(c, k + 1).type = "Hadamard"
    /\ GateAt(c, k).qubit = GateAt(c, k + 1).qubit

\* CancelsPauliX without the comparison of the two qubits.
CancelsPauliXAnyQubit(c, k) ==
    /\ GateAt(c, k).type = "PauliX"
    /\ k + 1 < Len(c.gates)
    /\ GateAt(c, k + 1).type = "PauliX"

\* The gate at k and the next one are Pauli-X gates on the same qubit.
CancelsPauliX(c, k) ==
    /\ GateAt(c, k).type = "PauliX"
    /\ k + 1 < Len(c.gates)
    /\ GateAt(c, k + 1).type = "PauliX"
    /\ GateAt(c, k).qubit = GateAt(c, k + 1).qubit

\* Pushed that pushes the gate twice.
PushedTwice(gates, g) == Append(Append(gates, g), g)

\* optimized_gates.push(gate.clone())
Pushed(gates, g) == Append(gates, g)

InitOpt ==
    /\ SimIdle
    /\ PoolIdle
    /\ LaunchIdle
    /\ GenIdle
    /\ ParIdle
    /\ circuit \in [num_qubits : OptQubitCounts, gates : SeqsUpTo(OptGates, MaxLen)]
    /\ opt_i = 0
    /\ skip_next = FALSE
    /\ optimized_gates = <<>>
    /\ optimized = NoCircuit

InLoop == optimized = NoCircuit /\ opt_i < Len(circuit.gates)

\* if skip_next { skip_next = false; continue; }
OptSkip ==
    /\ InLoop
    /\ skip_next
    /\ skip_next' = FALSE
    /\ opt_i' = opt_i + 1
    /\ UNCHANGED <<circuit, optimized_gates, optimized>>
    /\ UNCHANGED <<simVars, poolVars, launchVars, genVars, parVars>>

OptCancelHadamard ==
    /\ InLoop
    /\ ~skip_next
    /\ CancelsHadamard(circuit, opt_i)
    /\ skip_next' = TRUE
    /\ opt_i' = opt_i + 1
    /\ UNCHANGED <<circuit, optimized_gates, optimized>>
    /\ UNCHANGED <<simVars, poolVars, launchVars, genVars, parVars>>

OptCancelPauliX ==
    /\ InLoop
    /\ ~skip_next
    /\ ~CancelsHadamard(circuit, opt_i)
    /\ CancelsPauliX(circuit, opt_i)
    /\ skip_next' = TRUE
    /\ opt_i' = opt_i + 1
    /\ UNCHANGED <<circuit, optimized_gates, optimized>>
    /\ UNCHANGED <<simVars, poolVars, launchVars, genVars, parVars>>

OptPush ==
    /\ InLoop
    /\ ~skip_next
    /\ ~CancelsHadamard(circuit, opt_i)
    /\ ~CancelsPauliX(circuit, opt_i)
    /\ optimized_gates' = Pushed(optimized_gates, GateAt(circuit, opt_i))
    /\ opt_i' = opt_i + 1
    /\ UNCHANGED <<circuit, skip_next, optimized>>
    /\ UNCHANGED <<simVars, poolVars, launchVars, genVars, parVars>>

\* QuantumCircuit { num_qubits: circuit.num_qubits, gates: optimized_gates }
OptReturn ==
    /\ optimized = NoCircuit
    /\ opt_i = Len(circuit.gates)
    /\ optimized' = [num_qubits |-> circuit.num_qubits, gates |-> optimized_gates]
    /\ UNCHANGED <<circuit, opt_i, skip_next, optimized_gates>>
    /\ UNCHANGED <<simVars, poolVars, launchVars, genVars, parVars>>

NextOpt ==
    \/ OptSkip
    \/ OptCancelHadamard
    \/ OptCancelPauliX
    \/ OptPush
    \/ OptReturn

SpecOpt == InitOpt /\ [][NextOpt]_vars

\* ------------------------------------------------ optimizer properties
Returned == optimized # NoCircuit

SamePair(g, h) ==
    /\ g.type = h.type
    /\ g.type \in {"Hadamard", "PauliX"}
    /\ g.qubit = h.qubit

\* The reference scan: at position p (from 1), drop the gate and the next
\* one and advance two positions when both are Hadamard on one qubit or both
\* PauliX on one qubit; otherwise keep the gate and advance one position.
RECURSIVE RefScan(_, _)
RefScan(gates, p) ==
    IF p > Len(gates) THEN <<>>
    ELSE IF p < Len(gates) /\ SamePair(gates[p], gates[p + 1])
    THEN RefScan(gates, p + 2)
    ELSE <<gates[p]>> \o RefScan(gates, p + 1)

\* C3: optimize returns the gates the reference scan keeps; in particular
\* [H(0),H(0)] gives [], [X(1),X(1),H(0)] gives [H(0)], and
\* [H(0),X(1),X(1),H(0)] gives [H(0),H(0)] (no second pass).
C3_SinglePass ==
    Returned =>
        /\ optimized.gates = RefScan(circuit.gates, 1)
        /\ circuit.gates = <<Hadamard(0), Hadamard(0)>> => optimized.gates = <<>>
        /\ circuit.gates = <<PauliX(1), PauliX(1), Hadamard(0)>> =>
               optimized.gates = <<Hadamard(0)>>
        /\ circuit.gates = <<Hadamard(0), PauliX(1), PauliX(1), Hadamard(0)>> =>
               optimized.gates = <<Hadamard(0), Hadamard(0)>>

\* optimize has returned on a circuit whose cancellation left a new
\* adjacent pair.
C3_Witness ==
    /\ Returned
    /\ circuit.gates = <<Hadamard(0), PauliX(1), PauliX(1), Hadamard(0)>>
    /\ optimized.gates = <<Hadamard(0), Hadamard(0)>>

\* s is t with some of its elements removed: the elements of s are matched,
\* in order, to distinct positions of t, from position p on.
RECURSIVE IsSubsequenceFrom(_, _, _, _)
IsSubsequenceFrom(s, k, t, p) ==
    IF k > Len(s) THEN TRUE
    ELSE IF p > Len(t) THEN FALSE
    ELSE IF s[k] = t[p] THEN IsSubsequenceFrom(s, k + 1, t, p + 1)
    ELSE IsSubsequenceFrom(s, k, t, p + 1)

\* C4: optimize returns a circuit with the same num_qubits, no more gates
\* than the input, and gates that are a subsequence of the input's.
C4_Subsequence ==
    Returned =>
        /\ optimized.num_qubits = circuit.num_qubits
        /\ Len(optimized.gates) <= Len(circuit.gates)
        /\ IsSubsequenceFrom(optimized.gates, 1, circuit.gates, 1)

\* optimize has returned a circuit that lost a pair and kept gates on
\* both sides of it.
C4_Witness ==
    /\ Returned
    /\ circuit.num_qubits = 3
    /\ circuit.gates = <<PauliZ(0), PauliX(1), PauliX(1), CNOT(0, 1)>>
    /\ optimized.gates = <<PauliZ(0), CNOT(0, 1)>>

\* -------------------------------------------------------- GpuMemoryPool
\* Bits of the pool's unsigned integers (64 in the source, scaled down).
WordBits == 4

\* One more than the largest value of the unsigned type.
Modulus == 2 ^ WordBits

Word == 0 .. (Modulus - 1)

\* saturating_sub computed as a wrapping subtraction.
WrappingSub(a, b) == (a - b) % Modulus

\* a.saturating_sub(b)
SaturatingSub(a, b) == IF a >= b THEN a - b ELSE 0

\* GpuMemoryPool::new(total_memory)
InitPool ==
    /\ SimIdle
    /\ OptIdle
    /\ LaunchIdle
    /\ GenIdle
    /\ ParIdle
    /\ overflow_checks \in BOOLEAN
    /\ total_memory \in Word
    /\ used_memory = 0
    /\ pool_call = NoCall

PoolAlive == pool_call.result # Panic

Called(op, size, result) ==
    [op |-> op, size |-> size, before |-> used_memory, result |-> result]

\* allocate(size) when used_memory + size fits the unsigned type.
AllocateOk(size) ==
    /\ used_memory + size < Modulus
    /\ used_memory + size <= total_memory
    /\ used_memory' = used_memory + size
    /\ pool_call' = Called("allocate", size, Ok)

AllocateErr(size) ==
    /\ used_memory + size < Modulus
    /\ used_memory + size > total_memory
    /\ used_memory' = used_memory
    /\ pool_call' = Called("allocate", size, Err(size, total_memory - used_memory))

\* allocate(size) when used_memory + size overflows, in a build that checks.
AllocateOverflowPanic(size) ==
    /\ used_memory + size >= Modulus
    /\ overflow_checks
    /\ used_memory' = used_memory
    /\ pool_call' = Called("allocate", size, Panic)

\* allocate(size) when used_memory + size overflows, in a build that wraps.
AllocateOverflowWrap(size) ==
    /\ used_memory + size >= Modulus
    /\ ~overflow_checks
    /\ LET sum == (used_memory + size) % Modulus IN
       IF sum > total_memory
       THEN /\ used_memory' = used_memory
            /\ pool_call' =
                  Called("allocate", size, Err(size, total_memory - used_memory))
       ELSE /\ used_memory' = sum
            /\ pool_call' = Called("allocate", size, Ok)

Allocate ==
    /\ PoolAlive
    /\ \E size \in Word :
          \/ AllocateOk(size)
          \/ AllocateErr(size)
          \/ AllocateOverflowPanic(size)
          \/ AllocateOverflowWrap(size)
    /\ UNCHANGED <<overflow_checks, total_memory>>
    /\ UNCHANGED <<simVars, optVars, launchVars, genVars, parVars>>

Free ==
    /\ PoolAlive
    /\ \E size \in Word :
          /\ used_memory' = SaturatingSub(used_memory, size)
          /\ pool_call' = Called("free", size, Ok)
    /\ UNCHANGED <<overflow_checks, total_memory>>
    /\ UNCHANGED <<simVars, optVars, launchVars, genVars, parVars>>

\* available(): total_memory - used_memory in the unsigned type.
Available ==
    /\ PoolAlive
    /\ pool_call' =
          IF total_memory >= used_memory
          THEN Called("available", 0, [value |-> total_memory - used_memory])
          ELSE IF overflow_checks
          THEN Called("available", 0, Panic)
          ELSE Called("available", 0,
                      [value |-> (total_memory - used_memory) % Modulus])
    /\ UNCHANGED <<overflow_checks, total_memory, used_memory>>
    /\ UNCHANGED <<simVars, optVars, launchVars, genVars, parVars>>

NextPool == Allocate \/ Free \/ Available

SpecPool == InitPool /\ [][NextPool]_vars

\* ------------------------------------------------------ pool properties
\* C5: allocate(size) succeeds and adds size to used exactly when
\* used + size <= capacity as mathematical integers; otherwise it returns an
\* error reporting size and capacity - used and leaves used unchanged.
C5_AllocateContract ==
    pool_call.op = "allocate" =>
        IF pool_call.before + pool_call.size <= total_memory
        THEN /\ pool_call.result = Ok
             /\ used_memory = pool_call.before + pool_call.size
        ELSE /\ pool_call.result =
                    Err(pool_call.size, total_memory - pool_call.before)
             /\ used_memory = pool_call.before

\* C6: 0 <= used <= capacity always; free(size) leaves max(used - size, 0)
\* and does not panic; available() returns capacity - used and does not
\* panic.
C6_PoolInvariant ==
    /\ 0 <= used_memory
    /\ used_memory <= total_memory
    /\ pool_call.op = "free" =>
          /\ pool_call.result = Ok
          /\ used_memory =
                IF pool_call.before - pool_call.size > 0
                THEN pool_call.before - pool_call.size ELSE 0
    /\ pool_call.op = "available" =>
          pool_call.result = [value |-> total_memory - used_memory]

\* A free of more than is in use, on a pool with something in use.
C6_Witness ==
    /\ pool_call.op = "free"
    /\ pool_call.before > 0
    /\ pool_call.size > pool_call.before
    /\ used_memory = 0

\* ----------------------------------------------------- GpuKernelLauncher
BlockSize == 256

\* Largest small amount of work; amounts around one block are added.
MaxWork == 3

Works == (0 .. MaxWork) \cup {BlockSize - 1, BlockSize, BlockSize + 1}

\* GpuKernelLauncher::new(total_work), then launch entered.
InitLaunch ==
    /\ SimIdle
    /\ OptIdle
    /\ PoolIdle
    /\ GenIdle
    /\ ParIdle
    /\ total_work \in Works
    /\ block_size = BlockSize
    /\ grid_size = (total_work + block_size - 1) \div block_size
    /\ grid_idx = 0
    /\ block_idx = 0
    /\ kernel_calls = <<>>

\* kernel(grid_idx, block_idx), one iteration of the inner loop.
LaunchKernel ==
    /\ grid_idx < grid_size
    /\ block_idx < block_size
    /\ kernel_calls' = Append(kernel_calls, <<grid_idx, block_idx>>)
    /\ block_idx' = block_idx + 1
    /\ UNCHANGED <<total_work, block_size, grid_size, grid_idx>>
    /\ UNCHANGED <<simVars, optVars, poolVars, genVars, parVars>>

\* The inner loop ends; the outer loop takes its next index.
LaunchNextBlock ==
    /\ grid_idx < grid_size
    /\ block_idx = block_size
    /\ grid_idx' = grid_idx + 1
    /\ block_idx' = 0
    /\ UNCHANGED <<total_work, block_size, grid_size, kernel_calls>>
    /\ UNCHANGED <<simVars, optVars, poolVars, genVars, parVars>>

NextLaunch == LaunchKernel \/ LaunchNextBlock

SpecLaunch == InitLaunch /\ [][NextLaunch]_vars

\* -------------------------------------------------- launcher properties
LaunchDone == block_size > 0 /\ grid_idx = grid_size

GlobalIndex(pair) == pair[1] * block_size + pair[2]

TimesLaunched(index) ==
    Cardinality({k \in DOMAIN kernel_calls : GlobalIndex(kernel_calls[k]) = index})

\* C10: grid_size is ceil(W / 256), and once launch has returned the pairs
\* it passed to the kernel name every index in [0, W) exactly once and no
\* index >= W.
C10_Coverage ==
    /\ block_size > 0 =>
          /\ grid_size * block_size >= total_work
          /\ (grid_size - 1) * block_size < total_work
    /\ LaunchDone =>
          /\ \A index \in 0 .. (total_work - 1) : TimesLaunched(index) = 1
          /\ \A k \in DOMAIN kernel_calls :
                GlobalIndex(kernel_calls[k]) < total_work

\* ------------------------------------------------ simulator properties
RECURSIVE SumUpTo(_, _)
SumUpTo(p, i) == IF i < 0 THEN Zero ELSE Add(p[i], SumUpTo(p, i - 1))

\* The sum over all basis indices of the squared magnitude.
TotalProbability(sv) == SumUpTo(measure_all(sv), sv.size - 1)

Half == <<1, 0, 1>>

\* C1: after any prefix of a circuit whose gates have in-range, pairwise
\* distinct qubit indices, no call has aborted and the squared magnitudes of
\* the amplitudes sum to 1.
C1_Unitarity ==
    wellformed => (~state.panic /\ TotalProbability(state) = One)

\* A well-formed circuit of full length that ended on a Toffoli gate and left
\* the register in a superposition.
C1_Witness ==
    /\ wellformed
    /\ applied = MaxGates
    /\ changed
    /\ \E i \in DOMAIN state.data : state.data[i].re[3] > 0

\* C2: apply_gate with a qubit index >= num_qubits returns an OutOfRange
\* error and leaves every amplitude unchanged.
C2_RangeValidation ==
    call = "out_of_range" => (outcome = "OutOfRange" /\ ~changed)

\* C9: apply_gate on a CNOT, SWAP or Toffoli whose qubit fields are in range
\* but not pairwise distinct returns an OutOfRange error and leaves the state
\* vector unchanged.
C9_DistinctnessValidation ==
    call = "not_distinct" => (outcome = "OutOfRange" /\ ~changed)

\* C7: in every reachable state, for every in-range qubit q, PauliX(q) twice
\* restores every amplitude and Hadamard(q) twice restores every probability.
C7_SelfInverse ==
    ~state.panic =>
        \A q \in 0 .. (num_qubits - 1) :
            /\ apply_x_gpu(apply_x_gpu(state, q), q).data = state.data
            /\ measure_all(apply_hadamard_gpu(apply_hadamard_gpu(state, q), q))
                   = measure_all(state)

\* A state, reached by applying gates, that one PauliX and one Hadamard on
\* some qubit each change.
C7_Witness ==
    /\ applied = MaxGates
    /\ ~state.panic
    /\ \E q \in 0 .. (num_qubits - 1) :
          /\ apply_x_gpu(state, q).data # state.data
          /\ measure_all(apply_hadamard_gpu(state, q)) # measure_all(state)
          /\ \E i \in DOMAIN state.data : state.data[i].re[3] > 0

\* C8: the Bell circuit on a fresh 2-qubit simulator measures
\* [0.5, 0, 0, 0.5]; the GHZ(n) circuit, n >= 2, on a fresh n-qubit simulator
\* measures 0.5 at index 0 and at index 2^n - 1 and 0 elsewhere.
C8_EntangledStates ==
    /\ (source = "bell" /\ results # NoResults) =>
          results = [i \in 0 .. 3 |-> IF i \in {0, 3} THEN Half ELSE Zero]
    /\ (source = "ghz" /\ num_qubits >= 2 /\ results # NoResults) =>
          results = [i \in 0 .. (2 ^ num_qubits - 1) |->
                        IF i \in {0, 2 ^ num_qubits - 1} THEN Half ELSE Zero]

\* The GHZ circuit of the largest register has been run and measured.
C8_Witness ==
    source = "ghz" /\ num_qubits = MaxQubits /\ results # NoResults

\* The Bell circuit has been run and measured.
C8_WitnessBell ==
    source = "bell" /\ applied = 2 /\ results # NoResults

\* ----------------------------------------------------- circuit generators
\* The largest num_qubits argument handed to a generator.
MaxGenQubits == 7

\* std::f64::consts::PI / 2.0_f64.powi(d), kept as its denominator.
PiOver(denominator) == [pi_over |-> denominator]

\* A call of create_bell_state(), create_ghz_state(n) or create_qft_circuit(n).
InitGen ==
    /\ generator \in {"bell", "ghz", "qft"}
    /\ gen_n \in 0 .. MaxGenQubits
    /\ generator = "bell" => gen_n = 0
    /\ gen_gates = <<>>
    /\ gen_j = 0
    /\ gen_k = 0
    /\ gen_pc = "start"
    /\ generated = NoCircuit
    /\ SimIdle
    /\ OptIdle
    /\ PoolIdle
    /\ LaunchIdle
    /\ ParIdle

\* create_bell_state: returns its literal.
BellReturn ==
    /\ generator = "bell"
    /\ gen_pc = "start"
    /\ generated' = create_bell_state
    /\ gen_pc' = "done"
    /\ UNCHANGED <<generator, gen_n, gen_gates, gen_j, gen_k>>
    /\ UNCHANGED <<simVars, optVars, poolVars, launchVars, parVars>>

\* let mut gates = vec![Hadamard { qubit: 0 }]; the loop starts at i = 1.
GhzStart ==
    /\ generator = "ghz"
    /\ gen_pc = "start"
    /\ gen_gates' = <<Hadamard(0)>>
    /\ gen_j' = 1
    /\ gen_pc' = "loop"
    /\ UNCHANGED <<generator, gen_n, gen_k, generated>>
    /\ UNCHANGED <<simVars, optVars, poolVars, launchVars, parVars>>

\* gates.push(CNOT { control: 0, target: i }) for the next i of 1..num_qubits
GhzPush ==
    /\ generator = "ghz"
    /\ gen_pc = "loop"
    /\ gen_j < gen_n
    /\ gen_gates' = Append(gen_gates, CNOT(0, gen_j))
    /\ gen_j' = gen_j + 1
    /\ UNCHANGED <<generator, gen_n, gen_k, gen_pc, generated>>
    /\ UNCHANGED <<simVars, optVars, poolVars, launchVars, parVars>>

\* QuantumCircuit { num_qubits, gates } once the range 1..num_qubits is used up
GhzReturn ==
    /\ generator = "ghz"
    /\ gen_pc = "loop"
    /\ gen_j >= gen_n
    /\ generated' = [num_qubits |-> gen_n, gates |-> gen_gates]
    /\ gen_pc' = "done"
    /\ UNCHANGED <<generator, gen_n, gen_gates, gen_j, gen_k>>
    /\ UNCHANGED <<simVars, optVars, poolVars, launchVars, parVars>>

\* let mut gates = Vec::new(); (0..num_qubits).rev() starts at num_qubits - 1.
QftStart ==
    /\ generator = "qft"
    /\ gen_pc = "start"
    /\ gen_gates' = <<>>
    /\ gen_j' = gen_n - 1
    /\ gen_pc' = "loop"
    /\ UNCHANGED <<generator, gen_n, gen_k, generated>>
    /\ UNCHANGED <<simVars, optVars, poolVars, launchVars, parVars>>

\* gates.push(Hadamard { qubit: j }); (0..j).rev() starts at j - 1.
QftHadamard ==
    /\ generator = "qft"
    /\ gen_pc = "loop"
    /\ gen_j >= 0
    /\ gen_gates' = Append(gen_gates, Hadamard(gen_j))
    /\ gen_k' = gen_j - 1
    /\ gen_pc' = "inner"
    /\ UNCHANGED <<generator, gen_n, gen_j, generated>>
    /\ UNCHANGED <<simVars, optVars, poolVars, launchVars, parVars>>

\* gates.push(Phase { qubit: j, angle: PI / 2^(j - k) })
QftPhase ==
    /\ generator = "qft"
    /\ gen_pc = "inner"
    /\ gen_k >= 0
    /\ gen_gates' = Append(gen_gates, Phase(gen_j, PiOver(2 ^ (gen_j - gen_k))))
    /\ gen_k' = gen_k - 1
    /\ UNCHANGED <<generator, gen_n, gen_j, gen_pc, generated>>
    /\ UNCHANGED <<simVars, optVars, poolVars, launchVars, parVars>>

\* The inner range is used up: the outer loop takes the next j.
QftNext ==
    /\ generator = "qft"
    /\ gen_pc = "inner"
    /\ gen_k < 0
    /\ gen_j' = gen_j - 1
    /\ gen_pc' = "loop"
    /\ UNCHANGED <<generator, gen_n, gen_gates, gen_k, generated>>
    /\ UNCHANGED <<simVars, optVars, poolVars, launchVars, parVars>>

\* QuantumCircuit { num_qubits, gates } once the outer range is used up
QftReturn ==
    /\ generator = "qft"
    /\ gen_pc = "loop"
    /\ gen_j < 0
    /\ generated' = [num_qubits |-> gen_n, gates |-> gen_gates]
    /\ gen_pc' = "done"
    /\ UNCHANGED <<generator, gen_n, gen_gates, gen_j, gen_k>>
    /\ UNCHANGED <<simVars, optVars, poolVars, launchVars, parVars>>

NextGen ==
    \/ BellReturn
    \/ GhzStart
    \/ GhzPush
    \/ GhzReturn
    \/ QftStart
    \/ QftHadamard
    \/ QftPhase
    \/ QftNext
    \/ QftReturn

SpecGen == InitGen /\ [][NextGen]_vars

\* ---------------------------------------------------- generator properties
\* C11: every circuit a generator returns, for every num_qubits argument from
\* 0 up, has each gate's qubit indices below its num_qubits and each CNOT's
\* control different from its target.
C11_GeneratedCircuitInvariant ==
    generated # NoCircuit =>
        \A k \in DOMAIN generated.gates :
            /\ InRange(generated.gates[k], generated.num_qubits)
            /\ generated.gates[k].type = "CNOT" =>
                   generated.gates[k].control # generated.gates[k].target

\* ------------------------------------------- a kernel run, pair by pair
\* Register sizes the pair-by-pair runs are made on.
ParQubitCounts == {1, 2, 3}

\* for gate in &circuit.gates { simulator.apply_gate(gate) }, from gate k on
RECURSIVE RunGates(_, _, _)
RunGates(sv, gates, k) ==
    IF k > Len(gates) THEN sv
    ELSE RunGates(apply_gate(sv, gates[k]), gates, k + 1)

\* Gates that leave a register of n <= 3 qubits with 2^n different amplitudes.
ParPrefix(n) ==
    SubSeq(<<Hadamard(0), Phase(0, 1), Hadamard(1), Phase(1, 6),
             Hadamard(2), PauliZ(2)>>, 1, 2 * n)

\* The state vector the kernel is called on.
ParInput(n) == RunGates(NewStateVector(n), ParPrefix(n), 1)

\* The gates whose kernels update pairs, with in-range qubits.
ParGates(n) ==
    {Hadamard(q) : q \in 0 .. (n - 1)}
        \cup {PauliX(q) : q \in 0 .. (n - 1)}
        \cup {PauliY(q) : q \in 0 .. (n - 1)}
        \cup {RotationX(q, angle) : q \in 0 .. (n - 1), angle \in RotAngles}
        \cup {RotationY(q, angle) : q \in 0 .. (n - 1), angle \in RotAngles}
        \cup {CNOT(c, t) : c \in 0 .. (n - 1), t \in 0 .. (n - 1)}

\* PairSelects letting every loop index start a pair.
PairSelectsAlways(i, mask) == TRUE

\* if i & mask == 0
PairSelects(i, mask) == BitAnd(i, mask) = 0

\* The mask of the bit that tells the two indices of a pair apart.
ParMask(g) == IF g.type = "CNOT" THEN 2 ^ g.target ELSE 2 ^ g.qubit

\* The loop's condition at index i.
ParSelects(g, i) ==
    IF g.type = "CNOT" THEN CnotSelects(i, 2 ^ g.control, 2 ^ g.target)
    ELSE PairSelects(i, ParMask(g))

\* let j = i | mask
ParPartner(g, i) == i + ParMask(g) - BitAnd(i, ParMask(g))

\* What the kernel writes at i and at j, from the a and b it read there.
ParNewPair(g, a, b) ==
    CASE g.type = "Hadamard" -> HadamardPair(a, b)
      [] g.type = "PauliY" -> YPair(a, b)
      [] g.type = "RotationX" ->
            RxPair(a, b, Cos(g.angle \div 2), Sin(g.angle \div 2))
      [] g.type = "RotationY" ->
            RyPair(a, b, Cos(g.angle \div 2), Sin(g.angle \div 2))
      [] OTHER -> <<b, a>>

\* A kernel is called; an index whose condition is false has nothing to do.
InitPar ==
    /\ \E n \in ParQubitCounts :
          /\ par_input = ParInput(n)
          /\ par_gate \in ParGates(n)
    /\ par_sv = par_input
    /\ par_pc = [i \in 0 .. (par_sv.size - 1) |->
                    IF ParSelects(par_gate, i) THEN "todo" ELSE "done"]
    /\ par_a = [i \in 0 .. (par_sv.size - 1) |-> Complex(Zero, Zero)]
    /\ par_b = [i \in 0 .. (par_sv.size - 1) |-> Complex(Zero, Zero)]
    /\ par_writes = [i \in 0 .. (par_sv.size - 1) |-> 0]
    /\ SimIdle
    /\ OptIdle
    /\ PoolIdle
    /\ LaunchIdle
    /\ GenIdle

\* let a = self.data[i];  (temp, temp_i)
ParReadFirst ==
    \E i \in DOMAIN par_pc :
        /\ par_pc[i] = "todo"
        /\ par_a' = [par_a EXCEPT ![i] = par_sv.data[i]]
        /\ par_pc' = [par_pc EXCEPT ![i] = "read_a"]
        /\ UNCHANGED <<par_gate, par_input, par_sv, par_b, par_writes>>
        /\ UNCHANGED <<simVars, optVars, poolVars, launchVars, genVars>>

\* let b = self.data[j];  (temp_j, or the right-hand side of data[i] = data[j])
ParReadSecond ==
    \E i \in DOMAIN par_pc :
        /\ par_pc[i] = "read_a"
        /\ par_b' = [par_b EXCEPT ![i] = par_sv.data[ParPartner(par_gate, i)]]
        /\ par_pc' = [par_pc EXCEPT ![i] = "read_b"]
        /\ UNCHANGED <<par_gate, par_input, par_sv, par_a, par_writes>>
        /\ UNCHANGED <<simVars, optVars, poolVars, launchVars, genVars>>

\* self.data[i] = ...
ParWriteFirst ==
    \E i \in DOMAIN par_pc :
        /\ par_pc[i] = "read_b"
        /\ par_sv' = [par_sv EXCEPT
                         !.data[i] = ParNewPair(par_gate, par_a[i], par_b[i])[1]]
        /\ par_writes' = [par_writes EXCEPT ![i] = @ + 1]
        /\ par_pc' = [par_pc EXCEPT ![i] = "wrote_i"]
        /\ UNCHANGED <<par_gate, par_input, par_a, par_b>>
        /\ UNCHANGED <<simVars, optVars, poolVars, launchVars, genVars>>

\* self.data[j] = ...
ParWriteSecond ==
    \E i \in DOMAIN par_pc :
        /\ par_pc[i] = "wrote_i"
        /\ par_sv' = [par_sv EXCEPT
                         !.data[ParPartner(par_gate, i)] =
                             ParNewPair(par_gate, par_a[i], par_b[i])[2]]
        /\ par_writes' = [par_writes EXCEPT ![ParPartner(par_gate, i)] = @ + 1]
        /\ par_pc' = [par_pc EXCEPT ![i] = "done"]
        /\ UNCHANGED <<par_gate, par_input, par_a, par_b>>
        /\ UNCHANGED <<simVars, optVars, poolVars, launchVars, genVars>>

NextPar == ParReadFirst \/ ParReadSecond \/ ParWriteFirst \/ ParWriteSecond

SpecPar == InitPar /\ [][NextPar]_vars

\* ------------------------------------------------ pair-by-pair properties
ParDone == \A i \in DOMAIN par_pc : par_pc[i] = "done"

\* The indices the iteration of loop index i reads and writes.
ParPair(i) == {i, ParPartner(par_gate, i)}

\* C12: the pairs of one kernel run share no index, no index is written
\* twice, every iteration reads the amplitudes the kernel was called on, and
\* whatever the order and interleaving of the iterations' reads and writes,
\* the vector they leave is the one the ascending sequential loop leaves.
C12_OrderIndependence ==
    /\ \A i1, i2 \in DOMAIN par_pc :
          (i1 # i2 /\ ParSelects(par_gate, i1) /\ ParSelects(par_gate, i2))
              => ParPair(i1) \cap ParPair(i2) = {}
    /\ \A index \in DOMAIN par_writes : par_writes[index] <= 1
    /\ \A i \in DOMAIN par_pc :
          /\ par_pc[i] \in {"read_a", "read_b", "wrote_i", "done"}
                 /\ ParSelects(par_gate, i)
                 => par_a[i] = par_input.data[i]
          /\ par_pc[i] \in {"read_b", "wrote_i", "done"}
                 /\ ParSelects(par_gate, i)
                 => par_b[i] = par_input.data[ParPartner(par_gate, i)]
    /\ ParDone =>
          par_sv.data = apply_gate(par_input, par_gate).data

\* A finished run in which the iterations did not run one after the other in
\* ascending order cannot be told from one in which they did; its trace is in
\* this state: a Hadamard run where a later pair is done while an earlier
\* pair has read both amplitudes and written neither.
C12_Witness ==
    /\ par_gate.type = "Hadamard"
    /\ \E i1, i2 \in DOMAIN par_pc :
          /\ i1 < i2
          /\ ParSelects(par_gate, i1)
          /\ ParSelects(par_gate, i2)
          /\ par_pc[i1] = "read_b"
          /\ par_pc[i2] = "done"
          /\ par_sv.data[i2] # par_input.data[i2]

\* --------------------------------------------- controlled-gate properties
\* i ^ mask for a mask with one bit set
FlipBit(i, mask) == IF BitAnd(i, mask) = 0 THEN i + mask ELSE i - mask

\* Ordered choices of in-range, pairwise distinct qubits of the register.
QubitPairs ==
    {p \in (0 .. (num_qubits - 1)) \X (0 .. (num_qubits - 1)) : p[1] # p[2]}

QubitTriples ==
    {p \in (0 .. (num_qubits - 1)) \X (0 .. (num_qubits - 1))
               \X (0 .. (num_qubits - 1)) :
        p[1] # p[2] /\ p[1] # p[3] /\ p[2] # p[3]}

\* C13: in every reachable state, for every in-range control and target that
\* differ, apply_cnot_gpu leaves at each index whose control bit is set the
\* amplitude that was at the index with the target bit flipped, and at every
\* other index the amplitude that was there.
C13_CnotKernel ==
    ~state.panic =>
        \A p \in QubitPairs :
            LET after == apply_cnot_gpu(state, p[1], p[2]) IN
            /\ ~after.panic
            /\ \A i \in 0 .. (state.size - 1) :
                  after.data[i] =
                      IF BitAnd(i, 2 ^ p[1]) # 0
                      THEN state.data[FlipBit(i, 2 ^ p[2])]
                      ELSE state.data[i]

\* A state, reached by applying the full number of gates, that a CNOT on the
\* highest two qubits changes at an index with the control bit set and leaves
\* alone at a non-zero amplitude with the control bit clear.
C13_Witness ==
    /\ ~state.panic
    /\ num_qubits >= 2
    /\ applied = MaxGates
    /\ LET c == num_qubits - 1
           t == num_qubits - 2
           after == apply_cnot_gpu(state, c, t)
       IN  /\ \E i \in 0 .. (state.size - 1) :
                 BitAnd(i, 2 ^ c) # 0 /\ after.data[i] # state.data[i]
           /\ \E i \in 0 .. (state.size - 1) :
                 BitAnd(i, 2 ^ c) = 0 /\ state.data[i] # Complex(Zero, Zero)

\* C14: in every reachable state, for every in-range, pairwise distinct
\* control1, control2 and target, apply_toffoli exchanges the amplitudes of
\* the two indices of each pair that differ in the target bit and have both
\* control bits set, and leaves every other amplitude as it was.
C14_ToffoliGate ==
    ~state.panic =>
        \A p \in QubitTriples :
            LET after == apply_toffoli(state, p[1], p[2], p[3]) IN
            /\ ~after.panic
            /\ \A i \in 0 .. (state.size - 1) :
                  after.data[i] =
                      IF BitAnd(i, 2 ^ p[1]) # 0 /\ BitAnd(i, 2 ^ p[2]) # 0
                      THEN state.data[FlipBit(i, 2 ^ p[3])]
                      ELSE state.data[i]

\* ------------------------------------------- optimize and the simulator
\* simulate_circuit: a fresh simulator of the circuit's num_qubits, every
\* gate applied in order.
Simulated(c) == RunGates(NewStateVector(c.num_qubits), c.gates, 1)

\* C15: when optimize has returned, simulating the circuit it returned gives
\* at every basis index the measure_all probability that simulating its
\* argument gives, and neither simulation aborts.
C15_OptimizePreservesMeasurement ==
    Returned =>
        /\ ~Simulated(circuit).panic
        /\ ~Simulated(optimized).panic
        /\ measure_all(Simulated(optimized)) = measure_all(Simulated(circuit))

\* optimize has returned a circuit that lost a pair of PauliX gates standing
\* between the two gates that entangle qubits 0 and 1.
C15_Witness ==
    /\ Returned
    /\ circuit.num_qubits = 2
    /\ circuit.gates = <<Hadamard(0), PauliX(1), PauliX(1), CNOT(0, 1)>>
    /\ optimized.gates = <<Hadamard(0), CNOT(0, 1)>>
    /\ measure_all(Simulated(optimized)) =
           [i \in 0 .. 3 |-> IF i \in {0, 3} THEN Half ELSE Zero]

====
